---- MODULE Spec2Model ----
(***************************************************************************)
(* Model of ceautil's aggregation pipeline (src/utils.py): the hull        *)
(* pivot, the orientation aggregation, the area normalisation, the         *)
(* compactness ratios, the category binning and combine_results.           *)
(*                                                                         *)
(* A pandas table is a record [index, columns]: index is the sequence of   *)
(* row labels, columns the sequence of columns in column order, each       *)
(* [name, dtype, values].  A column name is the sequence of the tokens    *)
(* that "_" separates ("Qhs_MWh" is <<"Qhs", "MWh">>).  A cell is a        *)
(* rational [n, d] in lowest terms, NaN, an infinity or a string.          *)
(***************************************************************************)
EXTENDS Integers, Sequences, FiniteSets, TLC

VARIABLES
    pc,        \* "call" before the operation ran, "done" after it returned or raised
    fn,        \* the operation called
    args,      \* its arguments other than a table passed by reference
    df,        \* the caller's table object, passed by reference
    ret,       \* [ok |-> TRUE, val |-> v] returned, [ok |-> FALSE, exc |-> e] raised
    warnings   \* the warnings logged by the call, in order

vars == <<pc, fn, args, df, ret, warnings>>

None == [none |-> TRUE]

Returned(v) == [ok |-> TRUE, val |-> v]

Raised(e) == [ok |-> FALSE, exc |-> e]

KeyError == [type |-> "KeyError"]

IndexError == [type |-> "IndexError"]

\* pd.concat of an empty list
NoObjectsError == [type |-> "ValueError", message |-> "No objects to concatenate"]

\* reindex of a table whose index has duplicate labels
DuplicateLabelsError ==
    [type |-> "ValueError", message |-> "cannot reindex on an axis with duplicate labels"]

\* pd.concat(axis=1) of tables of different indexes, one with duplicate labels
InvalidIndexError == [type |-> "InvalidIndexError"]

----------------------------------------------------------------------------
(* Cells and float arithmetic *)

NaN == [nan |-> TRUE]

Inf(s) == [inf |-> s]

Str(s) == [s |-> s]

Abs(x) == IF x < 0 THEN -x ELSE x

RECURSIVE GCD(_, _)
GCD(a, b) == IF b = 0 THEN a ELSE GCD(b, a % b)

\* the rational n/d (d # 0) in lowest terms with a positive denominator
Rat(n, d) ==
    LET g == GCD(Abs(n), Abs(d))
        s == IF d < 0 THEN -1 ELSE 1
    IN  [n |-> s * (n \div g), d |-> s * (d \div g)]

Num(n) == [n |-> n, d |-> 1]

IsNum(c) == DOMAIN c = {"n", "d"}

\* float multiplication by an integer factor
Scale(c, k) == IF IsNum(c) THEN Rat(c.n * k, c.d) ELSE c

\* float division; x/0 is an infinity and 0/0 is NaN
Div(a, b) ==
    IF ~IsNum(a) \/ ~IsNum(b) THEN NaN
    ELSE IF b.n = 0
         THEN IF a.n = 0 THEN NaN ELSE Inf(IF a.n < 0 THEN -1 ELSE 1)
         ELSE Rat(a.n * b.d, a.d * b.n)

Add(a, b) == Rat(a.n * b.d + b.n * a.d, a.d * b.d)

Less(a, b) == a.n * b.d < b.n * a.d

\* sum(skipna=True): NaN cells count as 0
RECURSIVE SumSkipNa(_)
SumSkipNa(s) ==
    IF s = <<>> THEN Num(0)
    ELSE IF IsNum(Head(s)) THEN Add(Head(s), SumSkipNa(Tail(s)))
         ELSE SumSkipNa(Tail(s))

----------------------------------------------------------------------------
(* Tables *)

Range(s) == {s[i] : i \in DOMAIN s}

IsUnique(s) == \A i, j \in DOMAIN s : s[i] = s[j] => i = j

\* pd.api.types.is_numeric_dtype, select_dtypes(include="number")
IsNumericDtype(dtype) == dtype \in {"int64", "float64"}

ColNames(t) == {t.columns[i].name : i \in DOMAIN t.columns}

HasCol(t, name) == name \in ColNames(t)

\* t[name]: the first column of that name
Col(t, name) ==
    t.columns[CHOOSE i \in DOMAIN t.columns :
                 /\ t.columns[i].name = name
                 /\ \A j \in 1..(i - 1) : t.columns[j].name # name]

\* d[name] = column on an insertion-ordered mapping: an existing key keeps its
\* position and takes the new value, a new key is appended
SetCol(cols, c) ==
    IF \E i \in DOMAIN cols : cols[i].name = c.name
    THEN [i \in DOMAIN cols |-> IF cols[i].name = c.name THEN c ELSE cols[i]]
    ELSE Append(cols, c)

\* the positions of a label in an index
Locs(index, label) == {i \in DOMAIN index : index[i] = label}

\* remove duplicates, keeping first occurrences in order
RECURSIVE Unique(_)
Unique(s) ==
    IF s = <<>> THEN <<>>
    ELSE LET r == Unique(SubSeq(s, 1, Len(s) - 1))
         IN  IF s[Len(s)] \in Range(r) THEN r ELSE Append(r, s[Len(s)])

\* the building labels in sort order
LabelOrder == <<"B1", "B2", "B3">>

Rank(label) == CHOOSE i \in DOMAIN LabelOrder : LabelOrder[i] = label

\* the sorted sequence of a set of labels
SortedLabels(S) == SelectSeq(LabelOrder, LAMBDA x : x \in S)

----------------------------------------------------------------------------
(* get_scenario_subdirs *)

\* A simulation directory is the sequence of its entries in iterdir() order:
\* [name, is_file, geometry, demand]; geometry is the sequence of the entries of
\* outputs/data/solar-radiation, demand the rows of Total_demand.csv.
get_scenario_subdirs(simdir) == SelectSeq(simdir, LAMBDA e : ~e.is_file)

NoScenariosWarning == "No scenarios found"

ScenarioWarnings(simdir) ==
    IF Len(get_scenario_subdirs(simdir)) = 0 THEN <<NoScenariosWarning>> ELSE <<>>

----------------------------------------------------------------------------
(* get_hull_df_for_simulation *)

\* str.lower() on the orientation and TYPE values of the geometry files
Lower(tok) ==
    CASE tok = "South" -> "south"
      [] tok = "North" -> "north"
      [] OTHER -> tok

\* every (orientation, TYPE) pair of the modelled geometry files, in the sort
\* order groupby gives them (upper case sorts before lower case)
PairOrder ==
    << <<"South", "walls">>, <<"north", "walls">>, <<"north", "windows">>,
       <<"top", "roofs">> >>

\* filepath.name.endswith("_geometry.csv")
IsGeometryFile(f) ==
    /\ f.is_file
    /\ Len(f.name) >= 2
    /\ f.name[Len(f.name)] = "geometry.csv"

\* df.groupby(["orientation", "TYPE"])["AREA_m2"].sum() for one pair
RECURSIVE GroupSum(_, _)
GroupSum(rows, pair) ==
    IF rows = <<>> THEN 0
    ELSE (IF <<Head(rows).orientation, Head(rows).TYPE>> = pair
          THEN Head(rows).AREA_m2 ELSE 0) + GroupSum(Tail(rows), pair)

\* the one-row pivot of a geometry file: a column per (orientation, TYPE) pair
\* that has rows in this file, named <orientation.lower()>_<TYPE.lower()>
PivotFile(f) ==
    LET seen == {<<f.rows[i].orientation, f.rows[i].TYPE>> : i \in DOMAIN f.rows}
        pairs == SelectSeq(PairOrder, LAMBDA p : p \in seen)
    IN  [ID |-> f.name[1],
         cols |-> [i \in DOMAIN pairs |->
                     [name |-> <<Lower(pairs[i][1]), Lower(pairs[i][2])>>,
                      value |-> Num(GroupSum(f.rows, pairs[i]))]]]

RECURSIVE FlatNames(_)
FlatNames(pivots) ==
    IF pivots = <<>> THEN <<>>
    ELSE [i \in DOMAIN Head(pivots).cols |-> Head(pivots).cols[i].name]
         \o FlatNames(Tail(pivots))

\* the cell of one pivot under a column of the concatenation: concat leaves a
\* column the frame does not have missing
PivotCell(pivot, name) ==
    IF \E i \in DOMAIN pivot.cols : pivot.cols[i].name = name
    THEN pivot.cols[CHOOSE i \in DOMAIN pivot.cols : pivot.cols[i].name = name].value
    ELSE NaN

\* pd.concat(all_data, ignore_index=True).set_index("ID")
ConcatPivots(all_data) ==
    LET names == Unique(FlatNames(all_data))
    IN  [index |-> [i \in DOMAIN all_data |-> all_data[i].ID],
         columns |-> [k \in DOMAIN names |->
                        [name |-> names[k], dtype |-> "float64",
                         values |-> [i \in DOMAIN all_data |->
                                       PivotCell(all_data[i], names[k])]]]]

get_hull_df_for_simulation(simdir) ==
    LET scenario_subdirs == get_scenario_subdirs(simdir)
    IN  IF scenario_subdirs = <<>> THEN Raised(IndexError)
        ELSE LET files == SelectSeq(scenario_subdirs[1].geometry, IsGeometryFile)
                 all_data == [i \in DOMAIN files |-> PivotFile(files[i])]
             IN  IF all_data = <<>> THEN Raised(NoObjectsError)
                 ELSE Returned(ConcatPivots(all_data))

----------------------------------------------------------------------------
(* aggregate_orientations *)

\* "_walls" in col: some token after the first starts with the word
HasWord(name, word) == \E i \in 2..Len(name) : name[i] = word

\* cea_hull_df[cols].sum(axis=1)
RowSums(t, cols) ==
    [r \in DOMAIN t.index |->
        SumSkipNa([k \in DOMAIN cols |-> Col(t, cols[k]).values[r]])]

\* [col for col in cols if word in col]
ColsWithWord(cols, word) ==
    LET sel == SelectSeq(cols, LAMBDA c : HasWord(c.name, word))
    IN  [k \in DOMAIN sel |-> sel[k].name]

\* the fresh frame df of lines 94-99
AggregatedFrame(cea_hull_df) ==
    LET cols == cea_hull_df.columns
        walls_cols == ColsWithWord(cols, "walls")
        windows_cols == ColsWithWord(cols, "windows")
        roofs_cols == ColsWithWord(cols, "roofs")
        walls == RowSums(cea_hull_df, walls_cols)
        windows == RowSums(cea_hull_df, windows_cols)
        roofs == RowSums(cea_hull_df, windows_cols)
        hull_ag == [r \in DOMAIN cea_hull_df.index |->
                       SumSkipNa(<<walls[r], windows[r], roofs[r]>>)]
    IN  [index |-> cea_hull_df.index,
         columns |-> << [name |-> <<"walls">>, dtype |-> "float64", values |-> walls],
                        [name |-> <<"windows">>, dtype |-> "float64", values |-> windows],
                        [name |-> <<"roofs">>, dtype |-> "float64", values |-> roofs],
                        [name |-> <<"hull", "ag">>, dtype |-> "float64",
                         values |-> hull_ag] >>]

RECURSIVE SetCols(_, _)
SetCols(cols, new) ==
    IF new = <<>> THEN cols ELSE SetCols(SetCol(cols, Head(new)), Tail(new))

\* the table aggregate_orientations returns; with inplace it is the input
\* object, which then carries the four derived columns
aggregate_orientations(cea_hull_df, inplace) ==
    IF inplace
    THEN [cea_hull_df EXCEPT
            !.columns = SetCols(@, AggregatedFrame(cea_hull_df).columns)]
    ELSE AggregatedFrame(cea_hull_df)

----------------------------------------------------------------------------
(* Bounded inputs *)

MaxGeometryRows == 2

MaxArea == 2

SeqsFromTo(S, lo, hi) == UNION {[1..k -> S] : k \in lo..hi}

\* the rows a geometry file can hold
GeometryRows ==
    {[orientation |-> p[1], TYPE |-> p[2], AREA_m2 |-> a] :
        p \in {<<"South", "walls">>, <<"north", "walls">>, <<"north", "windows">>},
        a \in 1..MaxArea}

GeometryFile(id, rows) ==
    [name |-> <<id, "geometry.csv">>, is_file |-> TRUE, rows |-> rows]

\* other entries of a solar-radiation folder
OtherEntries ==
    {[name |-> <<"B2", "radiation.csv">>, is_file |-> TRUE, rows |-> <<>>],
     [name |-> <<"geometry.csv">>, is_file |-> TRUE, rows |-> <<>>],
     [name |-> <<"tmp", "geometry.csv">>, is_file |-> FALSE, rows |-> <<>>]}

ScenarioDir(name, geometry, demand) ==
    [name |-> name, is_file |-> FALSE, geometry |-> geometry, demand |-> demand]

StrayFile == [name |-> "readme.txt", is_file |-> TRUE, geometry |-> <<>>, demand |-> <<>>]

\* solar-radiation folders: B1's geometry file, then nothing, another entry or
\* B2's geometry file
HullGeometryDirs ==
    LET contents == SeqsFromTo(GeometryRows, 1, MaxGeometryRows)
    IN  {<<GeometryFile("B1", r)>> : r \in contents}
        \cup {<<GeometryFile("B1", r), e>> : r \in contents, e \in OtherEntries}
        \cup {<<GeometryFile("B1", r1), GeometryFile("B2", r2)>> :
                 r1 \in contents, r2 \in contents}
        \cup {<<e>> : e \in OtherEntries} \cup {<<>>}

HullSimDirs ==
    {<<ScenarioDir("S1", g, <<>>)>> : g \in HullGeometryDirs}
    \cup {<<StrayFile, ScenarioDir("S1", g, <<>>)>> : g \in HullGeometryDirs}
    \cup {<<>>, <<StrayFile>>}

----------------------------------------------------------------------------
(* The hull pivot as an operation *)

InitHull ==
    /\ pc = "call"
    /\ fn = "get_hull_df_for_simulation"
    /\ args \in [simulation_folder_path : HullSimDirs]
    /\ df = None
    /\ ret = None
    /\ warnings = <<>>

GetHullDf ==
    /\ pc = "call"
    /\ fn = "get_hull_df_for_simulation"
    /\ ret' = get_hull_df_for_simulation(args.simulation_folder_path)
    /\ warnings' = ScenarioWarnings(args.simulation_folder_path)
    /\ pc' = "done"
    /\ UNCHANGED <<fn, args, df>>

SpecHull == InitHull /\ [][GetHullDf]_vars

\* the geometry files the call reads
HullFiles ==
    LET subdirs == SelectSeq(args.simulation_folder_path, LAMBDA e : ~e.is_file)
    IN  IF subdirs = <<>> THEN <<>>
        ELSE SelectSeq(subdirs[1].geometry,
                       LAMBDA f : f.is_file /\ Len(f.name) >= 2
                                  /\ f.name[Len(f.name)] = "geometry.csv")

\* the sum of AREA_m2 over a file's rows of one lower-cased column name
RECURSIVE AreaOf(_, _)
AreaOf(rows, name) ==
    IF rows = <<>> THEN 0
    ELSE (IF <<Lower(Head(rows).orientation), Lower(Head(rows).TYPE)>> = name
          THEN Head(rows).AREA_m2 ELSE 0) + AreaOf(Tail(rows), name)

ObservedNames ==
    UNION {{<<Lower(HullFiles[i].rows[j].orientation), Lower(HullFiles[i].rows[j].TYPE)>> :
               j \in DOMAIN HullFiles[i].rows} : i \in DOMAIN HullFiles}

HullDone == pc = "done" /\ fn = "get_hull_df_for_simulation" /\ ret.ok

\* C4: the hull table has exactly one row per building, keyed by the first token
\* of the file name, one column per (orientation, type) pair observed in any
\* building, and every cell is the sum of AREA_m2 over that building's rows of
\* the pair, 0 when the building has none.
C4_HullCellsAreSumsOrZero ==
    HullDone =>
        LET t == ret.val
        IN  /\ t.index = [i \in DOMAIN HullFiles |-> HullFiles[i].name[1]]
            /\ IsUnique(t.index)
            /\ ColNames(t) = ObservedNames
            /\ IsUnique([k \in DOMAIN t.columns |-> t.columns[k].name])
            /\ \A k \in DOMAIN t.columns : \A i \in DOMAIN t.index :
                  t.columns[k].values[i]
                      = Num(AreaOf(HullFiles[i].rows, t.columns[k].name))

----------------------------------------------------------------------------
(* The orientation aggregation as an operation *)

Absent == [absent |-> TRUE]

\* the oriented columns a hull table can have, in column order
OrientedNames ==
    << <<"north", "walls">>, <<"south", "walls">>, <<"east", "windows">>,
       <<"top", "roofs">> >>

\* one-row hull tables: every oriented column is absent or holds an area or NaN
OrientedTables ==
    {[index |-> <<"B1">>,
      columns |-> LET present == SelectSeq(OrientedNames, LAMBDA nm : f[nm] # Absent)
                  IN  [k \in DOMAIN present |->
                         [name |-> present[k], dtype |-> "float64",
                          values |-> <<f[present[k]]>>]]] :
        f \in [Range(OrientedNames) -> {Absent, NaN} \cup {Num(a) : a \in 0..MaxArea}]}

InitAgg ==
    /\ pc = "call"
    /\ fn = "aggregate_orientations"
    /\ df \in OrientedTables
    /\ args \in [inplace : BOOLEAN]
    /\ ret = None
    /\ warnings = <<>>

AggregateOrientations ==
    /\ pc = "call"
    /\ fn = "aggregate_orientations"
    /\ ret' = Returned(aggregate_orientations(df, args.inplace))
    /\ df' = IF args.inplace THEN aggregate_orientations(df, args.inplace) ELSE df
    /\ pc' = "done"
    /\ UNCHANGED <<fn, args, warnings>>

SpecAgg == InitAgg /\ [][AggregateOrientations]_vars

\* the areas of row r of the input table under the columns whose second token
\* is word, missing cells left out
AreasOf(t, word, r) ==
    {<<k, t.columns[k].values[r]>> :
        k \in {j \in DOMAIN t.columns :
                  t.columns[j].name[2] = word /\ t.columns[j].values[r] # NaN}}

RECURSIVE SetSum(_)
SetSum(S) ==
    IF S = {} THEN 0
    ELSE LET x == CHOOSE y \in S : TRUE IN x[2].n + SetSum(S \ {x})

\* C1: walls, windows and roofs are the row-wise sums of the "_walls",
\* "_windows" and "_roofs" columns (0 without such a column) and hull_ag is
\* walls + windows + roofs.
C1_AggregatesSumTheirOwnColumns ==
    (pc = "done" /\ fn = "aggregate_orientations" /\ ~args.inplace) =>
        \A r \in DOMAIN df.index :
            LET w == SetSum(AreasOf(df, "walls", r))
                g == SetSum(AreasOf(df, "windows", r))
                f == SetSum(AreasOf(df, "roofs", r))
            IN  /\ Col(ret.val, <<"walls">>).values[r] = Num(w)
                /\ Col(ret.val, <<"windows">>).values[r] = Num(g)
                /\ Col(ret.val, <<"roofs">>).values[r] = Num(f)
                /\ Col(ret.val, <<"hull", "ag">>).values[r] = Num(w + g + f)

----------------------------------------------------------------------------
(* as_area_specific *)

\* "m2" in col
ContainsM2(name) == \E i \in DOMAIN name : name[i] = "m2"

\* substring tests and str.replace on the unit tokens of the demand columns
ContainsKW(tok) == tok \in {"kW", "kWh"}

ReplaceKW(tok) ==
    CASE tok = "kW" -> "W"
      [] tok = "kWh" -> "Wh"
      [] OTHER -> tok

ContainsMWh(tok) == tok \in {"MWh", "MWhyr"}

ReplaceMWh(tok) ==
    CASE tok = "MWh" -> "kWh"
      [] tok = "MWhyr" -> "kWhyr"
      [] OTHER -> tok

\* "kW" in unit, unit.replace("kW", "W") on the "_"-joined unit
UnitHasKW(unit) == \E i \in DOMAIN unit : ContainsKW(unit[i])

UnitReplaceKW(unit) == [i \in DOMAIN unit |-> ReplaceKW(unit[i])]

\* "MWh" in unit, unit.replace("MWh", "kWh")
UnitHasMWh(unit) == \E i \in DOMAIN unit : ContainsMWh(unit[i])

UnitReplaceMWh(unit) == [i \in DOMAIN unit |-> ReplaceMWh(unit[i])]

\* AreaSpecificColumn with the factor of the MWh branch left at 1
AreaSpecificColumnUnscaledMWh(source_df, col, area_col) ==
    LET parts == col
        name == SubSeq(parts, 1, Len(parts) - 1)
        unit0 == <<parts[Len(parts)]>> \o area_col
        unit1 == IF UnitHasKW(unit0) THEN UnitReplaceKW(unit0) ELSE unit0
        unit2 == IF UnitHasMWh(unit1) THEN UnitReplaceMWh(unit1) ELSE unit1
        factor == IF UnitHasKW(unit0) THEN 1000 ELSE 1
        value == Col(source_df, col).values
        area == Col(source_df, area_col).values
    IN  [name |-> (IF name = <<>> THEN <<"">> ELSE name) \o unit2,
         dtype |-> "float64",
         values |-> [r \in DOMAIN source_df.index |->
                        Div(Scale(value[r], factor), area[r])]]

\* lines 174-186: the output column of one selected column
AreaSpecificColumn(source_df, col, area_col) ==
    LET parts == col
        name == SubSeq(parts, 1, Len(parts) - 1)
        unit0 == <<parts[Len(parts)]>> \o area_col
        unit1 == IF UnitHasKW(unit0) THEN UnitReplaceKW(unit0) ELSE unit0
        unit2 == IF UnitHasMWh(unit1) THEN UnitReplaceMWh(unit1) ELSE unit1
        factor == IF UnitHasKW(unit0) \/ UnitHasMWh(unit1)
                  THEN 1000 ELSE 1
        value == Col(source_df, col).values
        area == Col(source_df, area_col).values
    IN  [name |-> (IF name = <<>> THEN <<"">> ELSE name) \o unit2,
         dtype |-> "float64",
         values |-> [r \in DOMAIN source_df.index |->
                        Div(Scale(value[r], factor), area[r])]]

\* the loop of lines 171-186 over the selected columns, filling data
RECURSIVE NormalizeLoop(_, _, _, _)
NormalizeLoop(source_df, value_cols, area_col, data) ==
    IF value_cols = <<>> THEN data
    ELSE IF ContainsM2(Head(value_cols))
         THEN NormalizeLoop(source_df, Tail(value_cols), area_col, data)
         ELSE NormalizeLoop(source_df, Tail(value_cols), area_col,
                  SetCol(data, AreaSpecificColumn(source_df, Head(value_cols), area_col)))

\* the column names of the demand tables in sort order
NameOrder ==
    << <<"Af", "m2">>, <<"Aocc", "m2">>, <<"Aroof", "m2">>, <<"E", "W">>,
       <<"E", "kW">>, <<"GFA", "m2">>, <<"Qhs", "MWh">>, <<"scenario">> >>

\* source_df.columns.difference(value_cols): sorted, without duplicates
ColumnsDifference(source_df, value_cols) ==
    SelectSeq(NameOrder, LAMBDA nm : nm \in ColNames(source_df) \ Range(value_cols))

\* lines 162-168: the selected columns; value_cols is None or [list |-> names]
SelectedValueCols(source_df, value_cols) ==
    IF value_cols = None
    THEN LET numeric == SelectSeq(source_df.columns, LAMBDA c : IsNumericDtype(c.dtype))
         IN  [k \in DOMAIN numeric |-> numeric[k].name]
    ELSE SelectSeq(value_cols.list, LAMBDA nm : IsNumericDtype(Col(source_df, nm).dtype))

\* pd.DataFrame(data) on a mapping of columns that share one index: a table of
\* no column has no row
DataFrameOf(data, index) ==
    IF data = <<>> THEN [index |-> <<>>, columns |-> <<>>]
    ELSE [index |-> index, columns |-> data]

as_area_specific(source_df, value_cols, area_col) ==
    IF value_cols # None
       /\ \E i \in DOMAIN value_cols.list : ~HasCol(source_df, value_cols.list[i])
    THEN Raised(KeyError)
    ELSE LET selected == SelectedValueCols(source_df, value_cols)
         IN  IF ~HasCol(source_df, area_col) /\ \E i \in DOMAIN selected : ~ContainsM2(selected[i])
             THEN Raised(KeyError)
             ELSE LET data == NormalizeLoop(source_df, selected, area_col, <<>>)
                      non_value_columns == ColumnsDifference(source_df, selected)
                      passed == [k \in DOMAIN non_value_columns |->
                                    Col(source_df, non_value_columns[k])]
                  IN  Returned(DataFrameOf(SetCols(data, passed), source_df.index))

----------------------------------------------------------------------------
(* The area normalisation as an operation *)

MaxValue == 1

SubSeqsOf(s) == {SelectSeq(s, LAMBDA x : x \in S) : S \in SUBSET Range(s)}

\* the columns a demand table can have, in column order, and the cells of each
DemandColumnOrder ==
    << <<"scenario">>, <<"Af", "m2">>, <<"GFA", "m2">>, <<"Qhs", "MWh">>,
       <<"E", "kW">>, <<"E", "W">> >>

DemandCells(nm) ==
    CASE nm = <<"scenario">> -> {Absent, Str("S1")}
      [] nm = <<"Af", "m2">> -> {Num(a) : a \in 1..MaxArea}
      [] nm = <<"GFA", "m2">> -> {Absent, Num(2)}
      [] OTHER -> {Absent} \cup {Num(v) : v \in 0..MaxValue}

\* one-row demand tables
DemandTables ==
    {[index |-> <<"B1">>,
      columns |-> LET present == SelectSeq(DemandColumnOrder, LAMBDA nm : f[nm] # Absent)
                  IN  [k \in DOMAIN present |->
                         [name |-> present[k],
                          dtype |-> IF present[k] = <<"scenario">>
                                    THEN "object" ELSE "float64",
                          values |-> <<f[present[k]]>>]]] :
        f \in {g \in [Range(DemandColumnOrder) ->
                        UNION {DemandCells(nm) : nm \in Range(DemandColumnOrder)}] :
                  \A nm \in Range(DemandColumnOrder) : g[nm] \in DemandCells(nm)}}

InitArea ==
    /\ pc = "call"
    /\ fn = "as_area_specific"
    /\ df \in DemandTables
    /\ args \in {[value_cols |-> v, area_col |-> a] :
                    v \in {None} \cup {[list |-> l] :
                                           l \in SubSeqsOf([k \in DOMAIN df.columns |->
                                                               df.columns[k].name])},
                    a \in {<<"Af", "m2">>, <<"GFA", "m2">>}}
    /\ ret = None
    /\ warnings = <<>>

AsAreaSpecific ==
    /\ pc = "call"
    /\ fn = "as_area_specific"
    /\ ret' = as_area_specific(df, args.value_cols, args.area_col)
    /\ pc' = "done"
    /\ UNCHANGED <<fn, args, df, warnings>>

SpecArea == InitArea /\ [][AsAreaSpecific]_vars

AreaDone == pc = "done" /\ fn = "as_area_specific" /\ ret.ok

\* C2: every column whose name contains "m2" is in the returned table under
\* the same name with the same values, with the default and with an explicit
\* value_cols.
C2_AreaColumnsPassThrough ==
    AreaDone =>
        \A k \in DOMAIN df.columns :
            ContainsM2(df.columns[k].name) =>
                /\ HasCol(ret.val, df.columns[k].name)
                /\ Col(ret.val, df.columns[k].name).values = df.columns[k].values

\* the columns of the input the call normalises: numeric, selected by
\* value_cols (all numeric columns by default), the name without "m2"
Normalised ==
    {k \in DOMAIN df.columns :
        /\ IsNumericDtype(df.columns[k].dtype)
        /\ ~ContainsM2(df.columns[k].name)
        /\ args.value_cols = None \/ df.columns[k].name \in Range(args.value_cols.list)}

\* the unit rewriting the specification states: MWh to kWh and kW to W
StatedUnit(u) == IF u = "MWh" THEN "kWh" ELSE IF u = "kW" THEN "W" ELSE u

StatedName(k) ==
    <<df.columns[k].name[1], StatedUnit(df.columns[k].name[2])>> \o args.area_col

\* cell c is value * 1000 / area in float arithmetic
IsScaledQuotient(c, value, area) ==
    IF area.n = 0
    THEN c = (IF value.n = 0 THEN NaN ELSE Inf(1))
    ELSE IsNum(c) /\ c.n * area.n = value.n * 1000 * c.d

StatedQuotients(k) ==
    /\ HasCol(ret.val, StatedName(k))
    /\ \A r \in DOMAIN df.index :
          IsScaledQuotient(Col(ret.val, StatedName(k)).values[r],
                           df.columns[k].values[r],
                           Col(df, args.area_col).values[r])

\* some other column of the input is written under the output name of column k
NameTaken(k) ==
    \/ \E j \in Normalised \ {k} : StatedName(j) = StatedName(k)
    \/ \E j \in DOMAIN df.columns \ Normalised : df.columns[j].name = StatedName(k)

\* C3 as stated: every normalised column <name>_MWh or <name>_kW is in the
\* output as <name>_kWh_<area_col> or <name>_W_<area_col> with the cells
\* value * 1000 / reference_area, and the output has the rows of the input.
C3_EveryNormalisedColumnScaled ==
    AreaDone =>
        \A k \in Normalised :
            df.columns[k].name[2] \in {"MWh", "kW"} =>
                StatedQuotients(k) /\ Len(ret.val.index) = Len(df.index)

\* C3 as amended: the same for every normalised column whose output name no
\* other column of the input is written under.
C3_NormalisedColumnScaledUnlessOverwritten ==
    AreaDone =>
        \A k \in Normalised :
            (df.columns[k].name[2] \in {"MWh", "kW"} /\ ~NameTaken(k)) =>
                StatedQuotients(k) /\ Len(ret.val.index) = Len(df.index)

\* Qhs_MWh = 1 over Af_m2 = 2 came out as Qhs_kWh_Af_m2 = 500
C3_Witness ==
    /\ AreaDone
    /\ args.area_col = <<"Af", "m2">>
    /\ \E k \in Normalised :
          /\ df.columns[k].name = <<"Qhs", "MWh">>
          /\ df.columns[k].values[1] = Num(1)
          /\ Col(df, <<"Af", "m2">>).values[1] = Num(2)
          /\ ~NameTaken(k)
          /\ Col(ret.val, <<"Qhs", "kWh", "Af", "m2">>).values[1] = Num(500)
    /\ \E k \in Normalised : df.columns[k].name = <<"E", "kW">> /\ ~NameTaken(k)

----------------------------------------------------------------------------
(* get_compactness *)

MismatchWarning == "the first buidling areas dont match the aggregates for the building!"

RowCountWarning == "The number of rows in hull_df and GFAs don't match!"

\* a Series: [index, dtype, values]
SeriesOf(t, name) ==
    [index |-> t.index, dtype |-> Col(t, name).dtype, values |-> Col(t, name).values]

\* the mean of the cells at a set of positions, NaN cells left out
MeanAt(values, locs) ==
    LET RECURSIVE Cells(_)
        Cells(i) == IF i = 0 THEN <<>>
                    ELSE IF i \in locs /\ IsNum(values[i])
                         THEN Append(Cells(i - 1), values[i]) ELSE Cells(i - 1)
        cells == Cells(Len(values))
    IN  IF cells = <<>> THEN NaN
        ELSE Div(SumSkipNa(cells), Num(Len(cells)))

\* GroupByIndexMean taking the first row of every label instead of the mean
GroupByIndexFirst(series) ==
    LET labels == SortedLabels(Range(series.index))
    IN  [index |-> labels,
         dtype |-> "float64",
         values |-> [k \in DOMAIN labels |->
                       series.values[CHOOSE i \in Locs(series.index, labels[k]) :
                                        \A j \in Locs(series.index, labels[k]) : i <= j]]]

\* GFAs.groupby(GFAs.index).agg("mean"): one row per label, labels sorted,
\* float64
GroupByIndexMean(series) ==
    LET labels == SortedLabels(Range(series.index))
    IN  [index |-> labels,
         dtype |-> "float64",
         values |-> [k \in DOMAIN labels |->
                       MeanAt(series.values, Locs(series.index, labels[k]))]]

\* series.loc[~index.duplicated(keep="first")]: the first row of every label,
\* in row order, the dtype kept
FirstPerIndex(series) ==
    LET labels == Unique(series.index)
        First(label) == CHOOSE i \in Locs(series.index, label) :
                            \A j \in Locs(series.index, label) : i <= j
    IN  [index |-> labels,
         dtype |-> series.dtype,
         values |-> [k \in DOMAIN labels |-> series.values[First(labels[k])]]]

\* Series.equals: the same labels in the same order, the same dtype, the same
\* cells
SeriesEquals(a, b) == a.index = b.index /\ a.dtype = b.dtype /\ a.values = b.values

\* AlignedIndex keeping the rows of the left operand only
AlignedIndexLeft(left, right) == left

\* the row labels of hull_df[col] / GFAs: the operands' own index when they
\* agree, else the union of the two, sorted unless one side is empty
AlignedIndex(left, right) ==
    IF left = right THEN left
    ELSE IF right = <<>> THEN left
    ELSE IF left = <<>> THEN right
    ELSE SortedLabels(Range(left) \cup Range(right))

\* the cell of a Series at a label of the aligned index
At(series, label) ==
    IF label \in Range(series.index)
    THEN series.values[CHOOSE i \in Locs(series.index, label) : TRUE]
    ELSE NaN

\* hull_df[col] / GFAs
SeriesDiv(left, right) ==
    LET index == AlignedIndex(left.index, right.index)
    IN  [index |-> index,
         dtype |-> "float64",
         values |-> [k \in DOMAIN index |->
                       Div(At(left, index[k]), At(right, index[k]))]]

CompactnessWarnings(hull_df, area_df, ref_col) ==
    LET GFAs == GroupByIndexMean(SeriesOf(area_df, ref_col))
        GFAsfirst == FirstPerIndex(SeriesOf(area_df, ref_col))
    IN  (IF ~SeriesEquals(GFAsfirst, GFAs) THEN <<MismatchWarning>> ELSE <<>>)
        \o (IF Len(GFAs.index) # Len(hull_df.index) THEN <<RowCountWarning>> ELSE <<>>)

get_compactness(hull_df, area_df, hull_cols, ref_col) ==
    IF ~HasCol(area_df, ref_col) \/ \E i \in DOMAIN hull_cols : ~HasCol(hull_df, hull_cols[i])
    THEN Raised(KeyError)
    ELSE LET GFAs == GroupByIndexMean(SeriesOf(area_df, ref_col))
             d == [i \in DOMAIN hull_cols |->
                     LET q == SeriesDiv(SeriesOf(hull_df, hull_cols[i]), GFAs)
                     IN  [name |-> hull_cols[i] \o <<"to">> \o ref_col,
                          dtype |-> "float64", values |-> q.values]]
         IN  Returned(DataFrameOf(SetCols(<<>>, d),
                                  AlignedIndex(hull_df.index, GFAs.index)))

----------------------------------------------------------------------------
(* The compactness ratios as an operation *)

MaxAreaRows == 3

\* aggregated hull tables over an index of distinct buildings
HullTable(index) ==
    AggregatedFrame(
        [index |-> index,
         columns |-> << [name |-> <<"north", "walls">>, dtype |-> "float64",
                         values |-> [i \in DOMAIN index |-> Num(2 * Rank(index[i]))]],
                        [name |-> <<"east", "windows">>, dtype |-> "float64",
                         values |-> [i \in DOMAIN index |-> Num(1)]] >>])

HullTables == {HullTable(ix) : ix \in {<<"B1">>, <<"B1", "B2">>, <<"B2", "B1">>}}

\* demand tables of up to MaxAreaRows rows: a building can have several rows
AreaTables ==
    {[index |-> [i \in DOMAIN rows |-> rows[i][1]],
      columns |-> << [name |-> <<"GFA", "m2">>, dtype |-> dtype,
                      values |-> [i \in DOMAIN rows |-> Num(rows[i][2])]] >>] :
        rows \in SeqsFromTo({"B1", "B2"} \X {1, 2, 3}, 1, MaxAreaRows),
        dtype \in {"int64", "float64"}}

DefaultHullCols == << <<"walls">>, <<"windows">>, <<"hull", "ag">> >>

InitCompact ==
    /\ pc = "call"
    /\ fn = "get_compactness"
    /\ args \in [hull_df : HullTables, area_df : AreaTables,
                 hull_cols : {DefaultHullCols, << <<"walls">> >>},
                 ref_col : {<<"GFA", "m2">>}]
    /\ df = None
    /\ ret = None
    /\ warnings = <<>>

GetCompactness ==
    /\ pc = "call"
    /\ fn = "get_compactness"
    /\ ret' = get_compactness(args.hull_df, args.area_df, args.hull_cols, args.ref_col)
    /\ warnings' = CompactnessWarnings(args.hull_df, args.area_df, args.ref_col)
    /\ pc' = "done"
    /\ UNCHANGED <<fn, args, df>>

SpecCompact == InitCompact /\ [][GetCompactness]_vars

CompactDone == pc = "done" /\ fn = "get_compactness"

\* the reference areas of the rows of a building, in row order
RefAreasOf(label) ==
    LET rows == SelectSeq([i \in DOMAIN args.area_df.index |->
                              <<args.area_df.index[i],
                                Col(args.area_df, args.ref_col).values[i].n>>],
                          LAMBDA x : x[1] = label)
    IN  [i \in DOMAIN rows |-> rows[i][2]]

RECURSIVE SeqSum(_)
SeqSum(s) == IF s = <<>> THEN 0 ELSE Head(s) + SeqSum(Tail(s))

AreaLabels == Range(args.area_df.index)

RowsDisagree(label) == \E i, j \in DOMAIN RefAreasOf(label) :
                          RefAreasOf(label)[i] # RefAreasOf(label)[j]

FirstDiffersFromMean(label) ==
    RefAreasOf(label)[1] * Len(RefAreasOf(label)) # SeqSum(RefAreasOf(label))

\* every ratio of a building of both tables is hull_value / mean reference area
RatiosUseMean ==
    /\ ret.ok
    /\ \A c \in DOMAIN args.hull_cols :
          LET out == Col(ret.val, args.hull_cols[c] \o <<"to">> \o args.ref_col)
              hull == Col(args.hull_df, args.hull_cols[c])
          IN  \A label \in AreaLabels \cap Range(args.hull_df.index) :
                 \E r \in DOMAIN ret.val.index, h \in DOMAIN args.hull_df.index :
                    /\ ret.val.index[r] = label
                    /\ args.hull_df.index[h] = label
                    /\ IsNum(out.values[r])
                    /\ out.values[r].n * SeqSum(RefAreasOf(label))
                          = hull.values[h].n * Len(RefAreasOf(label)) * out.values[r].d

Warned(w) == \E i \in DOMAIN warnings : warnings[i] = w

C6_RowsAreTheHullIndex ==
    CompactDone =>
        /\ ret.ok
        /\ ret.val.index = args.hull_df.index
        /\ [k \in DOMAIN ret.val.columns |-> ret.val.columns[k].name]
              = [c \in DOMAIN args.hull_cols |->
                    args.hull_cols[c] \o <<"to">> \o args.ref_col]

\* C6 as amended: the returned table has exactly one row per building of the
\* hull table or of the area table (the hull table's index when the two hold
\* the same buildings in the same order), and one column per requested hull
\* column.
C6_RowsAreTheUnionOfBothIndexes ==
    CompactDone =>
        /\ ret.ok
        /\ IsUnique(ret.val.index)
        /\ Range(ret.val.index) = Range(args.hull_df.index) \cup AreaLabels
        /\ (AreaLabels = Range(args.hull_df.index)
               /\ SortedLabels(AreaLabels) = args.hull_df.index)
              => ret.val.index = args.hull_df.index
        /\ [k \in DOMAIN ret.val.columns |-> ret.val.columns[k].name]
              = [c \in DOMAIN args.hull_cols |->
                    args.hull_cols[c] \o <<"to">> \o args.ref_col]

\* a building of the area table alone got a row, of missing ratios
C6_Witness ==
    /\ CompactDone
    /\ ret.ok
    /\ args.hull_df.index = <<"B1">>
    /\ AreaLabels = {"B1", "B2"}
    /\ \E r \in DOMAIN ret.val.index :
          /\ ret.val.index[r] = "B2"
          /\ \A k \in DOMAIN ret.val.columns : ret.val.columns[k].values[r] = NaN

\* every building of the area table has the same reference area in all its rows
RowsAgree == \A label \in AreaLabels : ~RowsDisagree(label)

\* C10: when all rows of every building carry the same reference area, no
\* mismatch warning is logged, whatever the order of the building IDs.
C10_NoWarningWhenRowsAgree ==
    (CompactDone /\ RowsAgree) => ~Warned(MismatchWarning)

----------------------------------------------------------------------------
(* add_compactness_category_col *)

\* bins.searchsorted(x, side="left"): the number of edges below x
SearchSortedLeft(bins, x) == Cardinality({i \in DOMAIN bins : Less(Num(bins[i]), x)})

\* Cut without include_lowest
CutWithoutLowest(x, bins, labels) ==
    IF ~IsNum(x) THEN NaN
    ELSE LET ids == SearchSortedLeft(bins, x)
         IN  IF ids = Len(bins) \/ ids = 0 THEN NaN ELSE Str(labels[ids])

\* pd.cut(x, bins=bins, labels=labels, include_lowest=True) on one cell:
\* intervals closed on the right, the first one also closed on the left
Cut(x, bins, labels) ==
    IF ~IsNum(x) THEN NaN
    ELSE LET ids == IF x = Num(bins[1]) THEN 1 ELSE SearchSortedLeft(bins, x)
         IN  IF ids = Len(bins) \/ ids = 0 THEN NaN ELSE Str(labels[ids])

\* BinsError with the two counts exchanged
BinsErrorSwapped(bins, labels) ==
    [type |-> "ValueError", message |-> "There must be one more bins than",
     n_bins |-> Len(labels), n_labels |-> Len(bins)]

\* the configuration error of lines 269-271, with both counts
BinsError(bins, labels) ==
    [type |-> "ValueError", message |-> "There must be one more bins than",
     n_bins |-> Len(bins), n_labels |-> Len(labels)]

\* the value the call returns or raises
add_compactness_category_col(table, bins, labels, col, name) ==
    IF Len(bins) # Len(labels) + 1 THEN Raised(BinsError(bins, labels))
    ELSE IF ~HasCol(table, col) THEN Raised(KeyError)
    ELSE Returned([table EXCEPT !.columns =
             SetCol(@, [name |-> name, dtype |-> "category",
                        values |-> [r \in DOMAIN table.index |->
                                      Cut(Col(table, col).values[r], bins, labels)]])])

----------------------------------------------------------------------------
(* The category binning as an operation *)

MaxBin == 3

LabelNames == <<"low", "mid", "high", "top", "peak">>

\* strictly increasing bin edges, two or more
BinEdges ==
    {b \in SeqsFromTo(0..MaxBin, 2, MaxBin + 1) :
        \A i \in 1..(Len(b) - 1) : b[i] < b[i + 1]}

\* the halves from -1/2 to MaxBin + 1/2, and a missing value
CompactnessCells == {Rat(k, 2) : k \in (-1)..(2 * MaxBin + 1)} \cup {NaN}

CompactTables ==
    {[index |-> <<"B1">>,
      columns |-> << [name |-> <<"hull", "ag", "to", "GFA", "m2">>,
                      dtype |-> "float64", values |-> <<c>>] >> \o old] :
        c \in CompactnessCells,
        old \in {<<>>, << [name |-> <<"compact", "category">>, dtype |-> "object",
                           values |-> <<Str("old")>>] >>}}

InitCat ==
    /\ pc = "call"
    /\ fn = "add_compactness_category_col"
    /\ df \in CompactTables
    /\ args \in [bins : BinEdges,
                 labels : {SubSeq(LabelNames, 1, n) : n \in 0..(MaxBin + 1)},
                 col : {<<"hull", "ag", "to", "GFA", "m2">>},
                 name : {<<"compact", "category">>}]
    /\ ret = None
    /\ warnings = <<>>

\* the table is passed by reference: the call assigns the column to the
\* caller's object and returns that object
AddCompactnessCategoryCol ==
    /\ pc = "call"
    /\ fn = "add_compactness_category_col"
    /\ LET r == add_compactness_category_col(df, args.bins, args.labels,
                                             args.col, args.name)
       IN  /\ ret' = r
           /\ df' = IF r.ok THEN r.val ELSE df
    /\ pc' = "done"
    /\ UNCHANGED <<fn, args, warnings>>

SpecCat == InitCat /\ [][AddCompactnessCategoryCol]_vars

CatStep == pc = "call" /\ fn = "add_compactness_category_col"

CountsMatch == Len(args.bins) = Len(args.labels) + 1

\* C8: with len(bins) # len(labels) + 1 the call raises a configuration error
\* that names both counts, and the table keeps its columns.
C8_MismatchRaisesAndKeepsTable ==
    [][(CatStep /\ ~CountsMatch) =>
          /\ ~ret'.ok
          /\ ret'.exc.type = "ValueError"
          /\ ret'.exc.n_bins = Len(args.bins)
          /\ ret'.exc.n_labels = Len(args.labels)
          /\ df' = df]_vars

\* four edges with two labels were refused
C8_Witness ==
    /\ pc = "done"
    /\ fn = "add_compactness_category_col"
    /\ args.bins = <<0, 1, 2, 3>>
    /\ args.labels = <<"low", "mid">>
    /\ ~ret.ok
    /\ ~HasCol(df, args.name)

\* the label of row r of the destination column after the call
LabelAfter(r) == Col(df, args.name).values[r]'

\* C9: with matching counts the call returns the table it was given, with the
\* destination column and no other change; a value strictly between bins[i]
\* and bins[i+1] gets labels[i], a value on the lowest edge gets labels[0], a
\* value below the lowest or above the last edge gets a missing category.
C9_LabelsFollowTheBins ==
    [][(CatStep /\ CountsMatch) =>
          /\ ret'.ok
          /\ ret'.val = df'
          /\ df'.index = df.index
          /\ ColNames(df') = ColNames(df) \cup {args.name}
          /\ \A k \in DOMAIN df.columns :
                df.columns[k].name # args.name => df'.columns[k] = df.columns[k]
          /\ \A r \in DOMAIN df.index :
                LET x == Col(df, args.col).values[r]
                    last == Len(args.bins)
                IN  IsNum(x) =>
                      /\ \A i \in 1..Len(args.labels) :
                            (Less(Num(args.bins[i]), x) /\ Less(x, Num(args.bins[i + 1])))
                               => LabelAfter(r) = Str(args.labels[i])
                      /\ x = Num(args.bins[1]) => LabelAfter(r) = Str(args.labels[1])
                      /\ (Less(x, Num(args.bins[1])) \/ Less(Num(args.bins[last]), x))
                            => LabelAfter(r) = NaN]_vars

\* 3/2 under the edges 0, 1, 2, 3 came out as "mid"
C9_Witness ==
    /\ pc = "done"
    /\ fn = "add_compactness_category_col"
    /\ args.bins = <<0, 1, 2, 3>>
    /\ args.labels = <<"low", "mid", "high">>
    /\ ret.ok
    /\ Col(df, args.col).values[1] = Rat(3, 2)
    /\ Col(df, args.name).values[1] = Str("mid")

----------------------------------------------------------------------------
(* get_annual_demand_for_scenario, get_annual_demands_for_simulation *)

\* the columns of Total_demand.csv, in file order
DemandCsvColumns ==
    << <<"Name">>, <<"Af", "m2">>, <<"Aroof", "m2">>, <<"GFA", "m2">>,
       <<"Aocc", "m2">>, <<"Qhs", "MWh">> >>

\* pd.read_csv(total_demand_file): rows numbered from 0, Name a text column
ReadDemandCsv(rows) ==
    [index |-> [i \in DOMAIN rows |-> i - 1],
     columns |-> [k \in DOMAIN DemandCsvColumns |->
                    [name |-> DemandCsvColumns[k],
                     dtype |-> IF DemandCsvColumns[k] = <<"Name">>
                               THEN "object" ELSE "float64",
                     values |-> [i \in DOMAIN rows |-> rows[i][k]]]]]

\* df.insert(loc, name, value)
InsertCol(t, loc, name, value) ==
    [t EXCEPT !.columns =
        SubSeq(@, 1, loc)
        \o << [name |-> name, dtype |-> "object",
               values |-> [i \in DOMAIN t.index |-> Str(value)]] >>
        \o SubSeq(@, loc + 1, Len(@))]

get_annual_demand_for_scenario(scenario_dir) ==
    InsertCol(ReadDemandCsv(scenario_dir.demand), 1, <<"scenario">>, scenario_dir.name)

\* pd.concat(dfs, ignore_index=True) of tables of the same columns
RECURSIVE ConcatRows(_)
ConcatRows(dfs) ==
    IF Len(dfs) = 1
    THEN [Head(dfs) EXCEPT !.index = [i \in DOMAIN @ |-> i - 1]]
    ELSE LET rest == ConcatRows(Tail(dfs))
             n == Len(Head(dfs).index) + Len(rest.index)
         IN  [index |-> [i \in 1..n |-> i - 1],
              columns |-> [k \in DOMAIN Head(dfs).columns |->
                             [Head(dfs).columns[k] EXCEPT
                                 !.values = @ \o rest.columns[k].values]]]

get_annual_demands_for_simulation(simdir) ==
    LET subdirs == get_scenario_subdirs(simdir)
        dfs == [i \in DOMAIN subdirs |-> get_annual_demand_for_scenario(subdirs[i])]
    IN  IF dfs = <<>> THEN Raised(NoObjectsError) ELSE Returned(ConcatRows(dfs))

----------------------------------------------------------------------------
(* combine_results *)

\* df.set_index(name): the cells of the column become the row labels
SetIndex(t, name) ==
    [index |-> [i \in DOMAIN t.index |-> Col(t, name).values[i].s],
     columns |-> SelectSeq(t.columns, LAMBDA c : c.name # name)]

\* t[names]
Project(t, names) ==
    [index |-> t.index, columns |-> [k \in DOMAIN names |-> Col(t, names[k])]]

\* Reindex with 0 in place of a missing cell under a label the table lacks
ReindexFillZero(t, index) ==
    [index |-> index,
     columns |-> [k \in DOMAIN t.columns |->
                    [t.columns[k] EXCEPT
                        !.values = [i \in DOMAIN index |->
                                      IF index[i] \in Range(t.index)
                                      THEN At([index |-> t.index, values |-> @], index[i])
                                      ELSE Num(0)]]]]

\* t.reindex(index) of a table of distinct row labels: the rows of the new
\* labels, missing cells under a label the table does not have
Reindex(t, index) ==
    [index |-> index,
     columns |-> [k \in DOMAIN t.columns |->
                    [t.columns[k] EXCEPT
                        !.values = [i \in DOMAIN index |->
                                      At([index |-> t.index, values |-> @], index[i])]]]]

RECURSIVE FlatColumns(_)
FlatColumns(frames) ==
    IF frames = <<>> THEN <<>> ELSE Head(frames).columns \o FlatColumns(Tail(frames))

\* pd.concat(frames, axis=1): tables of one and the same index are put side
\* by side; otherwise the rows are the sorted union of the labels, which needs
\* every index free of duplicates
ConcatColumns(frames) ==
    IF \A i \in DOMAIN frames : frames[i].index = frames[1].index
    THEN Returned([index |-> frames[1].index, columns |-> FlatColumns(frames)])
    ELSE IF \E i \in DOMAIN frames : ~IsUnique(frames[i].index)
    THEN Raised(InvalidIndexError)
    ELSE LET index == SortedLabels(UNION {Range(frames[i].index) : i \in DOMAIN frames})
         IN  Returned([index |-> index,
                       columns |-> FlatColumns([i \in DOMAIN frames |->
                                                   Reindex(frames[i], index)])])

AreaColumns == << <<"Af", "m2">>, <<"Aroof", "m2">>, <<"GFA", "m2">>, <<"Aocc", "m2">> >>

combine_results(simulation_dir) ==
    LET hull == get_hull_df_for_simulation(simulation_dir)
        raw == get_annual_demands_for_simulation(simulation_dir)
    IN  IF ~hull.ok THEN hull
        ELSE IF ~raw.ok THEN raw
        ELSE
        LET df_hull_oriented == hull.val
            df_hull_aggregated == aggregate_orientations(df_hull_oriented, FALSE)
            demands == SetIndex(raw.val, <<"Name">>)
            demands_m2 == as_area_specific(demands, None, <<"Af", "m2">>)
            df_compact == get_compactness(df_hull_aggregated, demands,
                                          DefaultHullCols, <<"GFA", "m2">>)
        IN  IF ~demands_m2.ok THEN demands_m2
            ELSE IF ~df_compact.ok THEN df_compact
            ELSE IF ~IsUnique(df_hull_oriented.index) \/ ~IsUnique(df_compact.val.index)
            THEN Raised(DuplicateLabelsError)
            ELSE ConcatColumns(<< Reindex(df_hull_oriented, demands_m2.val.index),
                                  Reindex(df_hull_aggregated, demands_m2.val.index),
                                  Reindex(df_compact.val, demands_m2.val.index),
                                  Project(demands, AreaColumns),
                                  demands_m2.val >>)

CombineWarnings(simulation_dir) ==
    LET hull == get_hull_df_for_simulation(simulation_dir)
        raw == get_annual_demands_for_simulation(simulation_dir)
    IN  ScenarioWarnings(simulation_dir)
        \o (IF hull.ok /\ raw.ok
            THEN ScenarioWarnings(simulation_dir)
                 \o CompactnessWarnings(aggregate_orientations(hull.val, FALSE),
                                        SetIndex(raw.val, <<"Name">>), <<"GFA", "m2">>)
            ELSE <<>>)

----------------------------------------------------------------------------
(* combine_results as an operation *)

MaxDemandRows == 2

\* the geometry file of a building
GeometryOf(id) ==
    GeometryFile(id,
        IF id = "B1"
        THEN << [orientation |-> "north", TYPE |-> "walls", AREA_m2 |-> 2],
                [orientation |-> "north", TYPE |-> "windows", AREA_m2 |-> 1] >>
        ELSE << [orientation |-> "South", TYPE |-> "walls", AREA_m2 |-> 1] >>)

\* the solar-radiation folders of a run: one geometry file per building
CombineGeometryDirs ==
    {<<>>, <<GeometryOf("B1")>>, <<GeometryOf("B2")>>,
     <<GeometryOf("B1"), GeometryOf("B2")>>, <<GeometryOf("B2"), GeometryOf("B1")>>}
    \cup {<<GeometryOf("B1"), e>> : e \in OtherEntries}

\* the row of a building in Total_demand.csv
DemandRow(id, gfa) ==
    <<Str(id), Num(2), Num(1), Num(gfa), Num(1), Num(Rank(id))>>

\* the demand files of a scenario: distinct buildings in any order
DemandFiles ==
    {[i \in DOMAIN ids |-> DemandRow(ids[i], gfa)] :
        ids \in {q \in SeqsFromTo(Range(LabelOrder), 1, MaxDemandRows) : IsUnique(q)},
        gfa \in {4}}

\* one or two scenarios over the same geometry, with or without a stray file
CombineSimDirs ==
    LET one == {<<ScenarioDir("S1", g, d)>> : g \in CombineGeometryDirs, d \in DemandFiles}
        two == {<<ScenarioDir("S1", g, d1), ScenarioDir("S2", g, d2)>> :
                   g \in CombineGeometryDirs, d1 \in DemandFiles, d2 \in DemandFiles}
    IN  one \cup two \cup {<<StrayFile>> \o x : x \in one}

InitCombine ==
    /\ pc = "call"
    /\ fn = "combine_results"
    /\ args \in [simulation_dir : CombineSimDirs]
    /\ df = None
    /\ ret = None
    /\ warnings = <<>>

CombineResults ==
    /\ pc = "call"
    /\ fn = "combine_results"
    /\ ret' = combine_results(args.simulation_dir)
    /\ warnings' = CombineWarnings(args.simulation_dir)
    /\ pc' = "done"
    /\ UNCHANGED <<fn, args, df>>

SpecCombine == InitCombine /\ [][CombineResults]_vars

\* the scenario folders of the run, the building names of their demand files in
\* file order, and the buildings that have a geometry file
Scenarios == SelectSeq(args.simulation_dir, LAMBDA e : ~e.is_file)

RECURSIVE DemandNames(_)
DemandNames(scenarios) ==
    IF scenarios = <<>> THEN <<>>
    ELSE [i \in DOMAIN Head(scenarios).demand |-> Head(scenarios).demand[i][1].s]
         \o DemandNames(Tail(scenarios))

GeometryIds ==
    {Scenarios[1].geometry[i].name[1] :
        i \in {j \in DOMAIN Scenarios[1].geometry :
                  /\ Scenarios[1].geometry[j].is_file
                  /\ Len(Scenarios[1].geometry[j].name) >= 2
                  /\ Scenarios[1].geometry[j].name[2] = "geometry.csv"}}

\* the columns of the combined table that come from the hull tables and the
\* compactness table
IsHullColumn(name) ==
    \/ name[Len(name)] \in {"walls", "windows", "roofs"}
    \/ name = <<"hull", "ag">>
    \/ (Len(name) > 2 /\ name[Len(name) - 2] = "to")

\* C7: for a run with a scenario and a geometry file, the combined table has
\* exactly the rows of the demand table, in its order; a building of the
\* demand data without geometry has missing values in every oriented,
\* aggregated and compactness column, and nothing is raised.
C7_RowsAreTheDemandRows ==
    (pc = "done" /\ fn = "combine_results" /\ Scenarios # <<>> /\ GeometryIds # {}) =>
        /\ ret.ok
        /\ ret.val.index = DemandNames(Scenarios)
        /\ \A nm \in {<<"walls">>, <<"windows">>, <<"hull", "ag">>,
                      <<"walls", "to", "GFA", "m2">>, <<"windows", "to", "GFA", "m2">>,
                      <<"hull", "ag", "to", "GFA", "m2">>} : HasCol(ret.val, nm)
        /\ \A r \in DOMAIN ret.val.index :
              ret.val.index[r] \notin GeometryIds =>
                 \A k \in DOMAIN ret.val.columns :
                    IsHullColumn(ret.val.columns[k].name)
                       => ret.val.columns[k].values[r] = NaN

\* two scenarios of the same buildings, one of them without geometry: four
\* rows, the ones of that building missing their hull values
C7_Witness ==
    /\ pc = "done"
    /\ fn = "combine_results"
    /\ ret.ok
    /\ GeometryIds = {"B1"}
    /\ ret.val.index = <<"B1", "B3", "B3", "B1">>
    /\ Col(ret.val, <<"hull", "ag", "to", "GFA", "m2">>).values[2] = NaN
    /\ Col(ret.val, <<"hull", "ag", "to", "GFA", "m2">>).values[1] = Num(1)
    /\ Col(ret.val, <<"Qhs", "kWh", "Af", "m2">>).values[2] = Num(1500)

----------------------------------------------------------------------------
(* The whole module: any one of the operations, called once *)

Init == InitHull \/ InitAgg \/ InitArea \/ InitCompact \/ InitCat \/ InitCombine

Next ==
    \/ GetHullDf
    \/ AggregateOrientations
    \/ AsAreaSpecific
    \/ GetCompactness
    \/ AddCompactnessCategoryCol
    \/ CombineResults

Spec == Init /\ [][Next]_vars

====
